---- MODULE Spec2Model ----
(***************************************************************************)
(* ramfs: a 9P2000 file server keeping all files in memory.                *)
(*                                                                         *)
(* The module models the FS value of fs.go: the path-id allocator (path,   *)
(* pathmap), the node tree built by New, the facade (Attach, Create, Open, *)
(* Remove), the fids bound to nodes, the task minting fids (newFid) and    *)
(* the accept loop of Listen with the connection ids, the connection tasks *)
(* and the dispatcher tasks it starts.                                     *)
(***************************************************************************)
EXTENDS Integers, Sequences, FiniteSets, TLC

\* ------------------------------------------------------------------ bounds
\* node objects ever allocated: the four startup nodes plus the creations
MaxNodes == 6
\* connections ever accepted by Listen
MaxConns == 2
\* longest name sequence given to a walk
MaxWalk == 3
\* width of a path id in the model (uint64 in the program)
PathBits == 3
\* requests ever submitted to the work queue
MaxTxns == 3
\* sockets ever accepted by Listen
MaxSocks == 4
\* accept errors ever met by Listen
MaxAcceptErrs == 1
\* the ceiling of the connection id counter (the largest uint32 in the program)
maxConn == 2
\* requests for a fresh fid ever sent to the task running FS.newFid
MaxMints == 3

\* --------------------------------------------------------------- constants
maxPath == 2 ^ PathBits - 1

OREAD == 0
OWRITE == 1
ORDWR == 2
OEXEC == 3
OTRUNC == 16

DMREAD == 4
DMWRITE == 2
DMEXEC == 1

\* octal permission digits, owner / group / other
Oct(u, g, o) == u * 64 + g * 8 + o

NoNode == -1
NoFid == [uid |-> "", node |-> NoNode, open |-> FALSE, mode |-> 0]

VARIABLES
    hostowner,  \* FS.hostowner
    path,       \* FS.path: the bump counter
    pathmap,    \* FS.pathmap: the reclaim set
    issued,     \* the ids handed to nodes so far: by New and by newPath
    wild,       \* delPath was called with an id no node was ever handed
    node,       \* the node objects ever allocated: object -> fields
    fidmap,     \* conn.fidmap of every connection: <<conn, num>> -> Fid
    ret,        \* the Fid the last call of the facade returned
    res,        \* the last operation: its arguments and what it returned
    mint,       \* the task running FS.newFid: where it is, the channel it serves
    req,        \* per connection: where its request for a fresh fid is
    nch,        \* the number of reply channels made so far
    closed,     \* the reply channels that were closed
    recvd,        \* what the requesters received from their reply channels
    nfid,       \* the number of Fid values FS.newFid has allocated
    conns,      \* the connections whose task Listen has started
    disp,       \* the dispatcher tasks Listen has started: what each executes
    work,       \* the work queue: the transactions submitted and not yet taken
    content,    \* the bytes of the file the write requests address
    replies,    \* the replies handed back to the connections
    subm,       \* the transactions submitted and not cancelled, in order
    flushed,    \* the tags of the transactions a flush removed from the queue
    ntag,       \* the number of requests submitted so far
    lpc,        \* where FS.Listen is: in its accept loop, or returned
    nsock,      \* the number of sockets accepted so far
    nerr,       \* the number of accept errors so far
    sock,       \* per accepted socket: open, failed or closed
    connid,     \* per accepted socket: the connection id newConn returned
    srvconn,    \* server.conn: the bump counter of connection ids
    connmap,    \* server.connmap: the freed connection ids
    closing,    \* the connections whose socket failed and whose task has not ended
    started,    \* per accepted socket: the connection tasks started for it
    dels        \* per accepted socket: the calls of delConn for its id

treeVars == <<hostowner, path, pathmap, issued, wild, node, fidmap, ret, res>>
mintVars == <<mint, req, nch, closed, recvd, nfid>>
fsVars == <<treeVars, mintVars>>
lsnVars ==
    <<lpc, nsock, nerr, sock, connid, srvconn, connmap, closing, started, dels>>
srvVars == <<conns, disp, work, content, replies, subm, flushed, ntag, lsnVars>>
vars == <<fsVars, srvVars>>

Conns == 1 .. MaxConns
\* the sockets Listen accepts, in the order of their acceptance
Socks == 1 .. MaxSocks
NoConn == -1
\* the fid numbers a connection uses
FidNums == {0}

\* ---------------------------------------------------------- identity store
\* newGroup(owner): the identities known at startup
Users == {"adm", "none", hostowner}

\* group.Get(uname): the user's record, or an error for an unknown name
GroupGet(uname) ==
    IF uname \in Users THEN [err |-> "none", Name |-> uname]
    ELSE [err |-> "unknown user", Name |-> ""]

\* group membership: every identity is the one member of its own group
InGroup(uid, gid) == uid = gid

\* ------------------------------------------------------------------- nodes
newNode(name, uid, gid, dir, perm, p) ==
    [name |-> name, uid |-> uid, gid |-> gid, dir |-> dir, perm |-> perm,
     path |-> p, parent |-> NoNode, children |-> {}]

root == 0

Objs == DOMAIN node

\* the child of directory d called name, NoNode when there is none
Child(d, name) ==
    LET c == {x \in node[d].children : node[x].name = name}
    IN  IF c = {} THEN NoNode ELSE CHOOSE x \in c : TRUE

\* n is an entry of its parent's children
Linked(n) == n # root /\ n \in node[node[n].parent].children

RECURSIVE Below(_)
Below(S) ==
    LET T == S \cup UNION {node[x].children : x \in S}
    IN  IF T = S THEN S ELSE Below(T)

\* the nodes of the namespace: what a walk from the root can reach
Live == Below({root})

\* the permission triad that applies to uid on node n holds bit
HasPerm(n, uid, bit) ==
    LET shift == IF uid = node[n].uid THEN 64
                 ELSE IF InGroup(uid, node[n].gid) THEN 8
                 ELSE 1
    IN  (node[n].perm \div (shift * bit)) % 2 = 1

\* --------------------------------------------------------------- allocator
\* newPath without the increment of the counter
newPathNoBump(id) ==
    IF pathmap # {}
    THEN /\ id \in pathmap
         /\ pathmap' = pathmap \ {id}
         /\ path' = path
         /\ issued' = issued \cup {id}
         /\ wild' = wild
    ELSE /\ path # maxPath
         /\ id = path
         /\ path' = path
         /\ pathmap' = pathmap
         /\ issued' = issued \cup {id}
         /\ wild' = wild

\* newPath without the delete of the id it takes from the reclaim set
newPathNoDelete(id) ==
    IF pathmap # {}
    THEN /\ id \in pathmap
         /\ pathmap' = pathmap
         /\ path' = path
         /\ issued' = issued \cup {id}
         /\ wild' = wild
    ELSE /\ path # maxPath
         /\ id = path
         /\ path' = (path + 1) % 2 ^ PathBits
         /\ pathmap' = pathmap
         /\ issued' = issued \cup {id}
         /\ wild' = wild

\* newPath that takes the counter while it is below the ceiling and turns to
\* the reclaim set only then
newPathCounterFirst(id) ==
    IF path # maxPath
    THEN /\ id = path
         /\ path' = (path + 1) % 2 ^ PathBits
         /\ pathmap' = pathmap
         /\ issued' = issued \cup {id}
         /\ wild' = wild
    ELSE /\ id \in pathmap
         /\ pathmap' = pathmap \ {id}
         /\ path' = path
         /\ issued' = issued \cup {id}
         /\ wild' = wild

\* newPath without the test of the counter against the ceiling
newPathNoCeiling(id) ==
    IF pathmap # {}
    THEN /\ id \in pathmap
         /\ pathmap' = pathmap \ {id}
         /\ path' = path
         /\ issued' = issued \cup {id}
         /\ wild' = wild
    ELSE /\ id = path
         /\ path' = (path + 1) % 2 ^ PathBits
         /\ pathmap' = pathmap
         /\ issued' = issued \cup {id}
         /\ wild' = wild

\* newPath that returns the counter after the increment
newPathAfterBump(id) ==
    IF pathmap # {}
    THEN /\ id \in pathmap
         /\ pathmap' = pathmap \ {id}
         /\ path' = path
         /\ issued' = issued \cup {id}
         /\ wild' = wild
    ELSE /\ path # maxPath
         /\ id = (path + 1) % 2 ^ PathBits
         /\ path' = (path + 1) % 2 ^ PathBits
         /\ pathmap' = pathmap
         /\ issued' = issued \cup {id}
         /\ wild' = wild

\* newPath returns id: a member of the reclaim set when there is one (map
\* iteration order is unspecified), else the counter
newPath(id) ==
    IF pathmap # {}
    THEN /\ id \in pathmap
         /\ pathmap' = pathmap \ {id}
         /\ path' = path
         /\ issued' = issued \cup {id}
         /\ wild' = wild
    ELSE /\ path # maxPath
         /\ id = path
         /\ path' = (path + 1) % 2 ^ PathBits
         /\ pathmap' = pathmap
         /\ issued' = issued \cup {id}
         /\ wild' = wild

\* newPath fails: nothing to reclaim and the counter is at the ceiling
newPathFails == pathmap = {} /\ path = maxPath

delPath(id) ==
    /\ pathmap' = pathmap \cup {id}
    /\ path' = path
    /\ issued' = issued
    /\ wild' = (wild \/ id \notin issued)

\* --------------------------------------------------------------------- New
StartNodes(owner) ==
    LET r == newNode("/", owner, "adm", TRUE, Oct(7, 5, 5), 0)
        a == newNode("adm", "adm", "adm", TRUE, Oct(7, 7, 0), 1)
        g == newNode("group", "adm", "adm", FALSE, Oct(6, 6, 0), 2)
        c == newNode("ctl", "adm", "adm", FALSE, Oct(2, 2, 0), 3)
    IN  (0 :> [r EXCEPT !.children = {1}, !.parent = 0])
        @@ (1 :> [a EXCEPT !.children = {2, 3}, !.parent = 0])
        @@ (2 :> [g EXCEPT !.parent = 1])
        @@ (3 :> [c EXCEPT !.parent = 1])

New(arg) ==
    LET owner == IF arg = "" THEN "adm" ELSE arg
    IN  /\ hostowner = owner
        /\ path = 4
        /\ pathmap = {}
        /\ issued = {StartNodes(owner)[n].path : n \in DOMAIN StartNodes(owner)}
        /\ wild = FALSE
        /\ node = StartNodes(owner)

Result(op, e, k, name, mode, uname) ==
    [op |-> op, err |-> e, count |-> k, name |-> name, mode |-> mode,
     uname |-> uname]

NoRes == Result("New", "none", 0, <<>>, 0, "")

NoTxn == [conn |-> 0, tag |-> 0, data |-> ""]

\* the fid a requester holds before it has received one
NilFid == [obj |-> 0, num |-> 0, uid |-> "", node |-> NoNode]

\* New has started the task running FS.newFid; nobody has asked for a fid
InitMint ==
    /\ mint = [pc |-> "range", ch |-> 0]
    /\ req = [c \in Conns |-> [pc |-> "idle", ch |-> 0]]
    /\ nch = 0
    /\ closed = {}
    /\ recvd = {}
    /\ nfid = 0

\* FS.Listen before the first Accept: no connection, no dispatcher task
InitSrv ==
    /\ conns = {}
    /\ disp = <<>>
    /\ work = <<>>
    /\ content = <<>>
    /\ replies = {}
    /\ subm = <<>>
    /\ flushed = {}
    /\ ntag = 0
    /\ lpc = "accept"
    /\ nsock = 0
    /\ nerr = 0
    /\ sock = [s \in Socks |-> "none"]
    /\ connid = [s \in Socks |-> NoConn]
    /\ srvconn = 0
    /\ connmap = {}
    /\ closing = {}
    /\ started = [s \in Socks |-> 0]
    /\ dels = [s \in Socks |-> 0]

\* the server started for host owner glenda, no connection attached yet
Init ==
    /\ New("glenda")
    /\ fidmap = [k \in Conns \X FidNums |-> NoFid]
    /\ ret = NoFid
    /\ res = NoRes
    /\ InitMint
    /\ InitSrv

\* ------------------------------------------------------------ path strings
\* A path string is held as the sequence of its pieces between slashes:
\* "" is <<"">>, "/" is <<"", "">>, "/adm/ctl" is <<"", "adm", "ctl">>.
Rooted(p) == Len(p) >= 2 /\ p[1] = ""

Last(s) == s[Len(s)]
Front(s) == SubSeq(s, 1, Len(s) - 1)

\* path.Clean, the element loop: drops empty and "." elements, lets ".."
\* remove the element before it, drops ".." at the start of a rooted path
RECURSIVE CleanElems(_, _, _)
CleanElems(in, out, rooted) ==
    IF in = <<>> THEN out
    ELSE LET e == Head(in)
             rest == Tail(in)
         IN  IF e = "" \/ e = "." THEN CleanElems(rest, out, rooted)
             ELSE IF e = ".."
             THEN IF out # <<>> /\ Last(out) # ".."
                  THEN CleanElems(rest, Front(out), rooted)
                  ELSE IF rooted THEN CleanElems(rest, out, rooted)
                  ELSE CleanElems(rest, Append(out, e), rooted)
             ELSE CleanElems(rest, Append(out, e), rooted)

\* path.Clean
Clean(p) ==
    LET out == CleanElems(p, <<>>, Rooted(p))
    IN  IF Rooted(p)
        THEN IF out = <<>> THEN <<"", "">> ELSE <<"">> \o out
        ELSE IF out = <<>> THEN <<".">> ELSE out

\* path.Dir: the part up to the last slash, cleaned
Dir(p) ==
    IF Len(p) >= 2 THEN Clean(Append(Front(p), "")) ELSE Clean(<<"">>)

\* path.Base: the last element, "." for the empty string, "/" for slashes
Base(p) ==
    LET names == SelectSeq(p, LAMBDA e : e # "")
    IN  IF p = <<"">> THEN "."
        ELSE IF names = <<>> THEN "/"
        ELSE Last(names)

\* split: the names of a path, none for "", "/" and "."
split(p) ==
    IF p = <<"">> \/ p = <<"", "">> \/ p = <<".">> THEN <<>>
    ELSE IF Rooted(p) THEN Tail(p)
    ELSE p

\* walk(root, path, fn): follows the names through the children maps; NoNode
\* stands for the error of a name that is no child
RECURSIVE walkNode(_, _)
walkNode(n, names) ==
    IF names = <<>> THEN n
    ELSE LET c == Child(n, Head(names))
         IN  IF c = NoNode THEN NoNode ELSE walkNode(c, Tail(names))

\* FS.walk
FSwalk(name) ==
    LET p == split(name)
    IN  IF Len(p) = 0 THEN root ELSE walkNode(root, p)

\* --------------------------------------------------------------- FS.Attach
\* FS.Attach without the fallback to the anonymous user
FSAttachStrict(uname, aname) ==
    LET got == GroupGet(uname)
        n == FSwalk(Clean(aname))
    IN  IF got.err # "none"
        THEN [err |-> got.err, fid |-> NoFid]
        ELSE IF n = NoNode
        THEN [err |-> "NotFound", fid |-> NoFid]
        ELSE [err |-> "none",
              fid |-> [uid |-> got.Name, node |-> n, open |-> FALSE, mode |-> 0]]

\* the fid and the error FS.Attach returns
FSAttach(uname, aname) ==
    LET got == GroupGet(uname)
        user == IF got.err # "none" THEN GroupGet("none") ELSE got
        n == FSwalk(Clean(aname))
    IN  IF n = NoNode
        THEN [err |-> "NotFound", fid |-> NoFid]
        ELSE [err |-> "none",
              fid |-> [uid |-> user.Name, node |-> n, open |-> FALSE, mode |-> 0]]

\* ------------------------------------------------------------ node and fid
\* the permission bits an open mode needs
NeedBits(mode) ==
    (IF mode % 4 = OREAD \/ mode % 4 = ORDWR THEN {DMREAD} ELSE {})
    \cup (IF mode % 4 = OWRITE \/ mode % 4 = ORDWR THEN {DMWRITE} ELSE {})
    \cup (IF mode % 4 = OEXEC THEN {DMEXEC} ELSE {})
    \cup (IF (mode \div OTRUNC) % 2 = 1 THEN {DMWRITE} ELSE {})

\* Fid.Open: the error of opening node n as uid with mode
FidOpenErr(n, uid, mode) ==
    IF \E bit \in NeedBits(mode) : ~HasPerm(n, uid, bit)
    THEN "PermissionDenied"
    ELSE "none"

\* node.Create: why directory d refuses to create name for uid
CreateErr(d, uid, name) ==
    IF ~node[d].dir THEN "NotADirectory"
    ELSE IF ~HasPerm(d, uid, DMWRITE) THEN "PermissionDenied"
    ELSE IF Child(d, name) # NoNode THEN "AlreadyExists"
    ELSE IF newPathFails THEN "ResourceExhausted"
    ELSE "none"

\* the object a creation allocates
NextObj == Cardinality(Objs)

\* the owner of a node created by uid
CreateOwner(uid) == uid

\* node.Create: links a node called name under d, owned by uid, group
\* inherited from d, holding the path id id that newPath returns
nodeCreate(d, uid, name, dir, perm, id) ==
    /\ newPath(id)
    /\ LET n == [newNode(name, CreateOwner(uid), node[d].gid, dir, perm, id)
                    EXCEPT !.parent = d]
       IN  node' = [x \in Objs \cup {NextObj} |->
                       IF x = NextObj THEN n
                       ELSE IF x = d
                       THEN [node[d] EXCEPT !.children = @ \cup {NextObj}]
                       ELSE node[x]]

\* Fid.Remove: why node n cannot be removed by uid
RemoveErr(n, uid) ==
    IF node[n].dir /\ node[n].children # {} THEN "DirectoryNotEmpty"
    ELSE IF ~Linked(n) THEN "NotFound"
    ELSE IF ~HasPerm(node[n].parent, uid, DMWRITE) THEN "PermissionDenied"
    ELSE "none"

\* Fid.Remove: unlinks n from its parent and frees its path id, unless it
\* fails
fidRemove(n, uid) ==
    IF RemoveErr(n, uid) # "none"
    THEN UNCHANGED <<node, path, pathmap, issued, wild>>
    ELSE /\ node' = [node EXCEPT ![node[n].parent].children = @ \ {n}]
         /\ delPath(node[n].path)

\* Fid.Walk that reports an error instead of the count of a partial walk is
\* modelled by the count 0; this one reports every name as resolved
RECURSIVE walkFidAll(_, _, _, _)
walkFidAll(n, uid, names, k) ==
    IF names = <<>> THEN [count |-> k, node |-> n]
    ELSE LET c == Child(n, Head(names))
         IN  IF ~node[n].dir \/ ~HasPerm(n, uid, DMEXEC) \/ c = NoNode
             THEN [count |-> k + Len(names), node |-> n]
             ELSE walkFidAll(c, uid, Tail(names), k + 1)

\* Fid.Walk: how many of names resolve from node n for uid, and where the
\* resolved names lead; a name resolves when the directory it is looked up
\* in may be traversed by uid and holds it
RECURSIVE walkFid(_, _, _, _)
walkFid(n, uid, names, k) ==
    IF names = <<>> THEN [count |-> k, node |-> n]
    ELSE LET c == Child(n, Head(names))
         IN  IF ~node[n].dir \/ ~HasPerm(n, uid, DMEXEC) \/ c = NoNode
             THEN [count |-> k, node |-> n]
             ELSE walkFid(c, uid, Tail(names), k + 1)

\* ------------------------------------------------------------------ inputs
Unames == {"glenda", "alice"}
Names == {"a", "b"}
AttachNames == {<<"">>, <<"", "a">>, <<"c">>}
Modes == {ORDWR}
CreateKinds ==
    {[dir |-> TRUE, perm |-> Oct(7, 7, 7)], [dir |-> FALSE, perm |-> Oct(6, 4, 4)]}

NameSeqs == UNION {[1 .. k -> Names] : k \in 1 .. MaxWalk}

\* ------------------------------------------- requests on a connection's fid
\* Tattach: binds fid number f of connection c to the attach point
Attach(c, f, uname, aname) ==
    /\ fidmap[<<c, f>>] = NoFid
    /\ LET r == FSAttach(uname, aname)
       IN  /\ fidmap' = [fidmap EXCEPT ![<<c, f>>] = r.fid]
           /\ res' = Result("Attach", r.err, 0, <<>>, 0, "")
    /\ UNCHANGED <<hostowner, path, pathmap, issued, wild, node, ret, mintVars, srvVars>>

\* Twalk: rebinds the fid when every name resolves
Walk(c, f, names) ==
    LET fid == fidmap[<<c, f>>]
        w == walkFid(fid.node, fid.uid, names, 0)
    IN  /\ fid # NoFid
        /\ ~fid.open
        /\ fidmap' = [fidmap EXCEPT ![<<c, f>>].node =
                          IF w.count = Len(names) THEN w.node ELSE @]
        /\ res' = Result("Walk", "none", w.count, names, 0, "")
        /\ UNCHANGED <<hostowner, path, pathmap, issued, wild, node, ret, mintVars, srvVars>>

\* Topen: binds the open mode after the permission check
Open(c, f, mode) ==
    LET fid == fidmap[<<c, f>>]
        e == FidOpenErr(fid.node, fid.uid, mode)
    IN  /\ fid # NoFid
        /\ ~fid.open
        /\ fidmap' = [fidmap EXCEPT ![<<c, f>>] =
                          IF e = "none" THEN [@ EXCEPT !.open = TRUE, !.mode = mode]
                          ELSE @]
        /\ res' = Result("Open", e, 0, <<>>, 0, "")
        /\ UNCHANGED <<hostowner, path, pathmap, issued, wild, node, ret, mintVars, srvVars>>

\* Tcreate: creates name under the fid's directory and rebinds the fid to it
Create(c, f, name, kind, mode) ==
    LET fid == fidmap[<<c, f>>]
        e == CreateErr(fid.node, fid.uid, name)
    IN  /\ fid # NoFid
        /\ ~fid.open
        /\ NextObj < MaxNodes
        /\ IF e # "none"
           THEN UNCHANGED <<node, path, pathmap, issued, wild, fidmap>>
           ELSE /\ \E id \in pathmap \cup {path} :
                      nodeCreate(fid.node, fid.uid, name, kind.dir, kind.perm, id)
                /\ fidmap' = [fidmap EXCEPT ![<<c, f>>] =
                                  [uid |-> fid.uid, node |-> NextObj,
                                   open |-> TRUE, mode |-> mode]]
        /\ res' = Result("Create", e, 0, <<>>, 0, "")
        /\ UNCHANGED <<hostowner, ret, mintVars, srvVars>>

\* Tremove: removes the fid's node and clunks the fid, also when it fails
Remove(c, f) ==
    LET fid == fidmap[<<c, f>>]
    IN  /\ fid # NoFid
        /\ fidRemove(fid.node, fid.uid)
        /\ res' = Result("Remove", RemoveErr(fid.node, fid.uid), 0, <<>>, 0, "")
        /\ fidmap' = [fidmap EXCEPT ![<<c, f>>] = NoFid]
        /\ UNCHANGED <<hostowner, ret, mintVars, srvVars>>

\* Tclunk: releases the fid
Clunk(c, f) ==
    LET fid == fidmap[<<c, f>>]
    IN  /\ fid # NoFid
        /\ fidmap' = [fidmap EXCEPT ![<<c, f>>] = NoFid]
        /\ res' = Result("Clunk", "none", 0, <<>>, 0, "")
        /\ UNCHANGED <<hostowner, path, pathmap, issued, wild, node, ret, mintVars, srvVars>>

Next ==
    \E c \in Conns, f \in FidNums :
        \/ \E u \in Unames, a \in AttachNames : Attach(c, f, u, a)
        \/ \E names \in NameSeqs : Walk(c, f, names)
        \/ \E m \in Modes : Open(c, f, m)
        \/ \E name \in Names, k \in CreateKinds, m \in Modes : Create(c, f, name, k, m)
        \/ Remove(c, f)
        \/ Clunk(c, f)

Spec == Init /\ [][Next]_vars

\* ------------------------------------------------------------- the facade
\* the identity the facade acts as: fs.group.Get(fs.hostowner)
FSUid == GroupGet(hostowner).Name

PathStrs ==
    {<<"">>, <<"", "a">>, <<"a", "">>, <<"", "a", "b">>, <<"", "adm">>,
     <<"a", "..", "b">>, <<"", "adm", "ctl", "a">>}
FSUnames == {"glenda", "adm", "alice"}
FSModes == {OREAD, ORDWR, OWRITE + OTRUNC}
FSKinds ==
    {[dir |-> TRUE, perm |-> Oct(7, 7, 7)], [dir |-> FALSE, perm |-> Oct(6, 4, 4)],
     [dir |-> FALSE, perm |-> Oct(4, 0, 0)]}

\* FS.Attach, called by the embedding program
FSAttachOp(uname, aname) ==
    /\ LET r == FSAttach(uname, aname)
       IN  /\ ret' = r.fid
           /\ res' = Result("FSAttach", r.err, 0, aname, 0, uname)
    /\ UNCHANGED <<hostowner, path, pathmap, issued, wild, node, fidmap, mintVars, srvVars>>

\* FS.Create: creates the last element of name under the directory the rest
\* of name leads to
FSCreateOp(name, mode, kind) ==
    LET clean == Clean(name)
        dir == FSwalk(Dir(clean))
        e == IF dir = NoNode THEN "NotFound" ELSE CreateErr(dir, FSUid, Base(clean))
    IN  /\ NextObj < MaxNodes
        /\ IF e # "none"
           THEN /\ ret' = NoFid
                /\ UNCHANGED <<path, pathmap, issued, wild, node>>
           ELSE /\ \E id \in pathmap \cup {path} :
                      nodeCreate(dir, FSUid, Base(clean), kind.dir, kind.perm, id)
                /\ ret' = [uid |-> FSUid, node |-> NextObj, open |-> FALSE, mode |-> 0]
        /\ res' = Result("FSCreate", e, 0, name, mode, "")
        /\ UNCHANGED <<hostowner, fidmap, mintVars, srvVars>>

\* FS.Open with the identity of the anonymous user
FSOpenErrAnon(name, mode) ==
    LET n == FSwalk(Clean(name))
    IN  IF n = NoNode THEN "NotFound" ELSE FidOpenErr(n, "none", mode)

\* FS.Open: the error it returns
FSOpenErr(name, mode) ==
    LET n == FSwalk(Clean(name))
    IN  IF n = NoNode THEN "NotFound" ELSE FidOpenErr(n, FSUid, mode)

\* FS.Open: walks to name and opens the node as the host owner
FSOpenOp(name, mode) ==
    LET e == FSOpenErr(name, mode)
    IN  /\ ret' = IF e = "none"
                  THEN [uid |-> FSUid, node |-> FSwalk(Clean(name)),
                        open |-> TRUE, mode |-> mode]
                  ELSE NoFid
        /\ res' = Result("FSOpen", e, 0, name, mode, "")
        /\ UNCHANGED <<hostowner, path, pathmap, issued, wild, node, fidmap, mintVars, srvVars>>

\* FS.Remove that drops the error of Fid.Remove
FSRemoveOpNoErr(name) ==
    LET n == FSwalk(Clean(name))
    IN  /\ IF n = NoNode
           THEN /\ res' = Result("FSRemove", "NotFound", 0, name, 0, "")
                /\ UNCHANGED <<path, pathmap, issued, wild, node>>
           ELSE /\ fidRemove(n, FSUid)
                /\ res' = Result("FSRemove", "none", 0, name, 0, "")
        /\ ret' = NoFid
        /\ UNCHANGED <<hostowner, fidmap, mintVars, srvVars>>

\* FS.Remove: walks to name and removes the node as the host owner
FSRemoveOp(name) ==
    LET n == FSwalk(Clean(name))
    IN  /\ IF n = NoNode
           THEN /\ res' = Result("FSRemove", "NotFound", 0, name, 0, "")
                /\ UNCHANGED <<path, pathmap, issued, wild, node>>
           ELSE /\ fidRemove(n, FSUid)
                /\ res' = Result("FSRemove", RemoveErr(n, FSUid), 0, name, 0, "")
        /\ ret' = NoFid
        /\ UNCHANGED <<hostowner, fidmap, mintVars, srvVars>>

\* the file system of any host owner, used through the facade
InitFS ==
    /\ \E arg \in {"", "glenda"} : New(arg)
    /\ fidmap = [k \in Conns \X FidNums |-> NoFid]
    /\ ret = NoFid
    /\ res = NoRes
    /\ InitMint
    /\ InitSrv

NextFS ==
    \/ \E u \in FSUnames, a \in PathStrs : FSAttachOp(u, a)
    \/ \E name \in PathStrs, m \in FSModes, k \in FSKinds : FSCreateOp(name, m, k)
    \/ \E name \in PathStrs, m \in FSModes : FSOpenOp(name, m)
    \/ \E name \in PathStrs : FSRemoveOp(name)

SpecFS == InitFS /\ [][NextFS]_vars

\* ------------------------------------------------- Listen and dispatching
Datas == {"A", "B"}

\* the transactions a dispatcher task is executing
Busy == {d \in 1 .. Len(disp) : disp[d] # NoTxn}

\* server.newConn returns id: a freed id when there is one, else the counter
newConn(id) ==
    IF connmap # {}
    THEN /\ id \in connmap
         /\ connmap' = connmap \ {id}
         /\ srvconn' = srvconn
    ELSE /\ srvconn # maxConn
         /\ id = srvconn
         /\ srvconn' = srvconn + 1
         /\ connmap' = connmap

\* server.newConn fails: no freed id and the counter at its ceiling
newConnFails == connmap = {} /\ srvconn = maxConn

\* server.delConn
delConn(id) ==
    /\ connmap' = connmap \cup {id}
    /\ srvconn' = srvconn

\* Listen that returns the error of listener.Accept
AcceptErrReturn ==
    /\ lpc = "accept"
    /\ nerr < MaxAcceptErrs
    /\ nerr' = nerr + 1
    /\ lpc' = "return"
    /\ UNCHANGED <<conns, disp, work, content, replies, subm, flushed, ntag,
                   nsock, sock, connid, srvconn, connmap, closing, started,
                   dels, fsVars>>

\* Listen, a turn of the accept loop in which listener.Accept fails: continue
AcceptErr ==
    /\ lpc = "accept"
    /\ nerr < MaxAcceptErrs
    /\ nerr' = nerr + 1
    /\ lpc' = lpc
    /\ UNCHANGED <<conns, disp, work, content, replies, subm, flushed, ntag,
                   nsock, sock, connid, srvconn, connmap, closing, started,
                   dels, fsVars>>

\* Listen, a turn of the accept loop with a socket accepted: when newConn
\* fails the socket is closed; else a dispatcher task (go srv.Listen()) and
\* the connection's task are started
Accept ==
    /\ lpc = "accept"
    /\ nsock < MaxSocks
    /\ nsock' = nsock + 1
    /\ IF newConnFails
       THEN /\ sock' = [sock EXCEPT ![nsock + 1] = "closed"]
            /\ UNCHANGED <<conns, disp, connid, srvconn, connmap, started>>
       ELSE /\ \E id \in connmap \cup {srvconn} :
                  /\ newConn(id)
                  /\ connid' = [connid EXCEPT ![nsock + 1] = id]
            /\ sock' = [sock EXCEPT ![nsock + 1] = "open"]
            /\ conns' = conns \cup {nsock + 1}
            /\ disp' = Append(disp, NoTxn)
            /\ started' = [started EXCEPT ![nsock + 1] = @ + 1]
    /\ UNCHANGED <<work, content, replies, subm, flushed, ntag, lpc, nerr,
                   closing, dels, fsVars>>

\* a connection decodes a write of one byte at offset 0 and submits it
Submit(c, data) ==
    /\ c \in conns
    /\ ntag < MaxTxns
    /\ LET t == [conn |-> c, tag |-> ntag + 1, data |-> data]
       IN  /\ work' = Append(work, t)
           /\ subm' = Append(subm, t)
    /\ ntag' = ntag + 1
    /\ UNCHANGED <<conns, disp, content, replies, flushed, lsnVars, fsVars>>

\* a dispatcher task receives the oldest transaction of the queue
Take(d) ==
    /\ d \in 1 .. Len(disp)
    /\ disp[d] = NoTxn
    /\ work # <<>>
    /\ disp' = [disp EXCEPT ![d] = Head(work)]
    /\ work' = Tail(work)
    /\ UNCHANGED <<conns, content, replies, subm, flushed, ntag, lsnVars, fsVars>>

\* a dispatcher task completes its transaction: the byte is written and the
\* reply handed to the connection
Finish(d) ==
    /\ d \in Busy
    /\ content' = IF content = <<>> THEN <<disp[d].data>>
                  ELSE [content EXCEPT ![1] = disp[d].data]
    /\ replies' = replies \cup {[conn |-> disp[d].conn, tag |-> disp[d].tag,
                                 type |-> "Rwrite"]}
    /\ disp' = [disp EXCEPT ![d] = NoTxn]
    /\ UNCHANGED <<conns, work, subm, flushed, ntag, lsnVars, fsVars>>

\* what a flush of tag leaves of a sequence of transactions
Without(q, tag) == SelectSeq(q, LAMBDA t : t.tag # tag)

\* a flush that acknowledges and leaves the queue as it is
FlushKeeping(c, tag) ==
    /\ c \in conns
    /\ \E t \in {subm[i] : i \in 1 .. Len(subm)} : t.tag = tag /\ t.conn = c
    /\ \A r \in replies : ~(r.tag = tag /\ r.type = "Rflush")
    /\ work' = work
    /\ subm' = IF \E i \in 1 .. Len(work) : work[i].tag = tag
               THEN Without(subm, tag) ELSE subm
    /\ flushed' = IF \E i \in 1 .. Len(work) : work[i].tag = tag
                  THEN flushed \cup {tag} ELSE flushed
    /\ replies' = replies \cup {[conn |-> c, tag |-> tag, type |-> "Rflush"]}
    /\ UNCHANGED <<conns, disp, content, ntag, lsnVars, fsVars>>

\* a connection decodes a flush of one of its tags: a transaction still in
\* the queue is removed from it; the flush is acknowledged either way
Flush(c, tag) ==
    /\ c \in conns
    /\ \E t \in {subm[i] : i \in 1 .. Len(subm)} : t.tag = tag /\ t.conn = c
    /\ \A r \in replies : ~(r.tag = tag /\ r.type = "Rflush")
    /\ work' = Without(work, tag)
    /\ subm' = IF \E i \in 1 .. Len(work) : work[i].tag = tag
               THEN Without(subm, tag) ELSE subm
    /\ flushed' = IF \E i \in 1 .. Len(work) : work[i].tag = tag
                  THEN flushed \cup {tag} ELSE flushed
    /\ replies' = replies \cup {[conn |-> c, tag |-> tag, type |-> "Rflush"]}
    /\ UNCHANGED <<conns, disp, content, ntag, lsnVars, fsVars>>

\* the file system started, Listen called
InitListen ==
    /\ New("glenda")
    /\ fidmap = [k \in Conns \X FidNums |-> NoFid]
    /\ ret = NoFid
    /\ res = NoRes
    /\ InitMint
    /\ InitSrv

NextSrv ==
    \/ Accept
    \/ \E c \in Conns, data \in Datas : Submit(c, data)
    \/ \E d \in 1 .. MaxConns : Take(d)
    \/ \E d \in 1 .. MaxConns : Finish(d)
    \/ \E c \in Conns, tag \in 1 .. MaxTxns : Flush(c, tag)

SpecSrv == InitListen /\ [][NextSrv]_vars

\* ------------------------------------------------ the allocator on its own
PathIds == 0 .. maxPath

\* a call of newPath: the error at the ceiling, else the id it returns
NewPathOp ==
    /\ \/ /\ newPathFails
          /\ res' = Result("newPath", "out of paths", 0, <<>>, 0, "")
          /\ UNCHANGED <<path, pathmap, issued, wild>>
       \/ \E id \in PathIds :
             /\ newPath(id)
             /\ res' = Result("newPath", "none", id, <<>>, 0, "")
    /\ UNCHANGED <<hostowner, node, fidmap, ret, mintVars, srvVars>>

\* a call of delPath with any id
DelPathOp(id) ==
    /\ delPath(id)
    /\ res' = Result("delPath", "none", id, <<>>, 0, "")
    /\ UNCHANGED <<hostowner, node, fidmap, ret, mintVars, srvVars>>

\* the allocator of a new file system, of any host owner
InitAlloc ==
    /\ \E arg \in {"", "glenda"} : New(arg)
    /\ fidmap = [k \in Conns \X FidNums |-> NoFid]
    /\ ret = NoFid
    /\ res = NoRes
    /\ InitMint
    /\ InitSrv

NextAlloc ==
    \/ NewPathOp
    \/ \E id \in PathIds : DelPathOp(id)

SpecAlloc == InitAlloc /\ [][NextAlloc]_vars

\* ------------------------------------------------------- the minting of fids
\* a connection makes a reply channel and offers it on fidnew; it blocks
\* until FS.newFid receives it (fidnew is unbuffered)
Request(c) ==
    /\ req[c].pc = "idle"
    /\ nch < MaxMints
    /\ nch' = nch + 1
    /\ req' = [req EXCEPT ![c] = [pc |-> "offer", ch |-> nch + 1]]
    /\ UNCHANGED <<mint, closed, recvd, nfid, treeVars, srvVars>>

\* FS.newFid, for ch := range fidnew: receives the channel connection c offers
MintRange(c) ==
    /\ mint.pc = "range"
    /\ req[c].pc = "offer"
    /\ mint' = [pc |-> "send", ch |-> req[c].ch]
    /\ req' = [req EXCEPT ![c].pc = "sent"]
    /\ UNCHANGED <<nch, closed, recvd, nfid, treeVars, srvVars>>

\* the connection arrives at the receive from its reply channel
Receive(c) ==
    /\ req[c].pc = "sent"
    /\ req' = [req EXCEPT ![c].pc = "recv"]
    /\ UNCHANGED <<mint, nch, closed, recvd, nfid, treeVars, srvVars>>

\* FS.newFid that allocates its Fid once, before the loop, and sends the
\* same one to every requester
MintSendShared(c) ==
    /\ mint.pc = "send"
    /\ req[c].pc = "recv"
    /\ req[c].ch = mint.ch
    /\ nfid' = 1
    /\ recvd' = recvd \cup {[conn |-> c, ch |-> mint.ch,
                          fid |-> [obj |-> 1, num |-> 0, uid |-> "none",
                                   node |-> root]]}
    /\ req' = [req EXCEPT ![c] = [pc |-> "idle", ch |-> 0]]
    /\ mint' = [mint EXCEPT !.pc = "close"]
    /\ UNCHANGED <<nch, closed, treeVars, srvVars>>

\* FS.newFid, ch <- &Fid{...}: a new Fid, number 0, uid "none", on the root,
\* is handed to the connection receiving from ch (the channel is unbuffered:
\* the send waits for the receiver)
MintSend(c) ==
    /\ mint.pc = "send"
    /\ req[c].pc = "recv"
    /\ req[c].ch = mint.ch
    /\ nfid' = nfid + 1
    /\ recvd' = recvd \cup {[conn |-> c, ch |-> mint.ch,
                          fid |-> [obj |-> nfid + 1, num |-> 0, uid |-> "none",
                                   node |-> root]]}
    /\ req' = [req EXCEPT ![c] = [pc |-> "idle", ch |-> 0]]
    /\ mint' = [mint EXCEPT !.pc = "close"]
    /\ UNCHANGED <<nch, closed, treeVars, srvVars>>

\* FS.newFid that returns after its first request
MintCloseReturn ==
    /\ mint.pc = "close"
    /\ closed' = closed \cup {mint.ch}
    /\ mint' = [pc |-> "return", ch |-> 0]
    /\ UNCHANGED <<req, nch, recvd, nfid, treeVars, srvVars>>

\* FS.newFid, close(ch), and back to the range over fidnew
MintClose ==
    /\ mint.pc = "close"
    /\ closed' = closed \cup {mint.ch}
    /\ mint' = [pc |-> "range", ch |-> 0]
    /\ UNCHANGED <<req, nch, recvd, nfid, treeVars, srvVars>>

\* the file system started, its connections asking for fids
InitNewFid ==
    /\ New("glenda")
    /\ fidmap = [k \in Conns \X FidNums |-> NoFid]
    /\ ret = NoFid
    /\ res = NoRes
    /\ InitMint
    /\ InitSrv

NextNewFid ==
    \/ \E c \in Conns : Request(c)
    \/ \E c \in Conns : MintRange(c)
    \/ \E c \in Conns : Receive(c)
    \/ \E c \in Conns : MintSend(c)
    \/ MintClose

SpecNewFid == InitNewFid /\ [][NextNewFid]_vars

\* the same under fair scheduling: the task running FS.newFid and every
\* connection that is able to take a step eventually takes it
SpecNewFidFair ==
    /\ SpecNewFid
    /\ WF_vars(\E c \in Conns : MintRange(c))
    /\ \A c \in Conns : WF_vars(Receive(c))
    /\ WF_vars(\E c \in Conns : MintSend(c))
    /\ WF_vars(MintClose)

\* ------------------------------------------------ the life of a connection
ConnFidNums == {0, 1}

\* the socket of connection c fails or is closed by the client: conn.recv
\* returns, which releases the id before the task has ended
SockFailRelease(c) ==
    /\ c \in conns \ closing
    /\ sock' = [sock EXCEPT ![c] = "failed"]
    /\ closing' = closing \cup {c}
    /\ delConn(connid[c])
    /\ dels' = [dels EXCEPT ![c] = @ + 1]
    /\ UNCHANGED <<conns, disp, work, content, replies, subm, flushed, ntag,
                   lpc, nsock, nerr, connid, started, fsVars>>

\* the socket of connection c fails or is closed by the client: conn.recv
\* returns
SockFail(c) ==
    /\ c \in conns \ closing
    /\ sock' = [sock EXCEPT ![c] = "failed"]
    /\ closing' = closing \cup {c}
    /\ UNCHANGED <<conns, disp, work, content, replies, subm, flushed, ntag,
                   lpc, nsock, nerr, connid, srvconn, connmap, started, dels,
                   fsVars>>

\* the end of a connection's task that leaves the fids of its table bound
TeardownKeepFids(c) ==
    /\ c \in closing
    /\ fidmap' = fidmap
    /\ conns' = conns \ {c}
    /\ closing' = closing \ {c}
    /\ delConn(connid[c])
    /\ dels' = [dels EXCEPT ![c] = @ + 1]
    /\ UNCHANGED <<disp, work, content, replies, subm, flushed, ntag, lpc,
                   nsock, nerr, sock, connid, started, hostowner, path,
                   pathmap, issued, wild, node, ret, res, mintVars>>

\* the end of a connection's task: conn.send(conn.recv()) has returned, the
\* fids of the connection's table are clunked and the deferred delConn runs
Teardown(c) ==
    /\ c \in closing
    /\ fidmap' = [k \in DOMAIN fidmap |-> IF k[1] = c THEN NoFid ELSE fidmap[k]]
    /\ conns' = conns \ {c}
    /\ closing' = closing \ {c}
    /\ delConn(connid[c])
    /\ dels' = [dels EXCEPT ![c] = @ + 1]
    /\ UNCHANGED <<disp, work, content, replies, subm, flushed, ntag, lpc,
                   nsock, nerr, sock, connid, started, hostowner, path,
                   pathmap, issued, wild, node, ret, res, mintVars>>

\* the connection is able to decode a request
Serving(c) == c \in conns \ closing

\* Listen called on a new file system; every socket it will accept has its
\* own fid table
InitConn ==
    /\ New("glenda")
    /\ fidmap = [k \in Socks \X ConnFidNums |-> NoFid]
    /\ ret = NoFid
    /\ res = NoRes
    /\ InitMint
    /\ InitSrv

NextConn ==
    \/ AcceptErr
    \/ Accept
    \/ \E c \in Socks : SockFail(c)
    \/ \E c \in Socks : Teardown(c)
    \/ \E c \in Socks, f \in ConnFidNums :
          /\ Serving(c)
          /\ \/ Attach(c, f, "glenda", <<"">>)
             \/ Create(c, f, "a", [dir |-> FALSE, perm |-> Oct(6, 4, 4)], ORDWR)
             \/ Remove(c, f)
             \/ Clunk(c, f)

SpecConn == InitConn /\ [][NextConn]_vars

\* the same with every connection whose socket failed ending its task
SpecConnFair == SpecConn /\ \A c \in Socks : WF_vars(Teardown(c))

\* ------------------------------------------------------------------ claims
LivePaths == {node[n].path : n \in Live}

C5_NoReuseWhileFidBound ==
    \A k \in DOMAIN fidmap :
        LET n == fidmap[k].node
        IN  (n # NoNode /\ n \notin Live) =>
                \A m \in Live : node[m].path # node[n].path

\* the children called name of the directories of S that uid may traverse
Step(S, uid, name) ==
    UNION {IF node[d].dir /\ HasPerm(d, uid, DMEXEC)
           THEN {c \in node[d].children : node[c].name = name}
           ELSE {} : d \in S}

\* the leading names that resolve from the nodes of S for uid: how many
\* (on top of k) and the nodes they lead to
RECURSIVE Resolved(_, _, _, _)
Resolved(S, uid, names, k) ==
    IF names = <<>> THEN [count |-> k, nodes |-> S]
    ELSE LET T == Step(S, uid, Head(names))
         IN  IF T = {} THEN [count |-> k, nodes |-> S]
             ELSE Resolved(T, uid, Tail(names), k + 1)

RECURSIVE PathOf(_)
PathOf(n) ==
    IF n = root THEN <<>> ELSE Append(PathOf(node[n].parent), node[n].name)

\* C6: Attach never fails for the identity: an unknown uname is served as
\* "none", a known one under its own name; it fails, with NotFound and no
\* fid, exactly when aname names no node from the root, and otherwise returns
\* an unopened fid on that node, the root for the empty aname.
C6_Attach ==
    res.op = "FSAttach" =>
        LET names == split(Clean(res.name))
            there == \E n \in Live : PathOf(n) = names
        IN  /\ res.err \in {"none", "NotFound"}
            /\ res.err = "NotFound" <=> ~there
            /\ res.err = "NotFound" => ret = NoFid
            /\ res.err = "none" =>
                  /\ ret.uid = IF res.uname \in Users THEN res.uname ELSE "none"
                  /\ ~ret.open
                  /\ ret.node \in Live
                  /\ PathOf(ret.node) = names
            /\ res.name = <<"">> => res.err = "none" /\ ret.node = root

\* an unknown user attached to a created directory and was served as "none"
C6_Witness ==
    /\ res.op = "FSAttach"
    /\ res.err = "none"
    /\ res.uname = "alice"
    /\ ret.uid = "none"
    /\ ret.node >= 4

\* C8: a Remove of a directory that has a child fails with DirectoryNotEmpty
\* and changes neither the tree nor the allocator.
C8_RemoveNonEmpty ==
    [][LET n == FSwalk(Clean(res'.name))
       IN  (res'.op = "FSRemove" /\ n # NoNode /\ node[n].dir /\ node[n].children # {}) =>
               /\ res'.err = "DirectoryNotEmpty"
               /\ node' = node
               /\ pathmap' = pathmap
               /\ path' = path]_vars

\* the Remove of a created directory that holds a created child failed
C8_Witness ==
    /\ res.op = "FSRemove"
    /\ res.err = "DirectoryNotEmpty"
    /\ res.name = <<"", "a">>
    /\ \E n \in Live : n >= 4 /\ node[n].children # {}

\* the Create before and the Open after it: same mode, and the Open is of
\* the node the Create returned
CreateThenOpen ==
    /\ res.op = "FSCreate"
    /\ res.err = "none"
    /\ res'.op = "FSOpen"
    /\ res'.mode = res.mode
    /\ FSwalk(Clean(res'.name)) = ret.node

\* C9 as claimed: an Open right after a successful Create, of the created
\* node with the same mode, never fails with PermissionDenied.
C9_CreateThenOpen ==
    [][CreateThenOpen => res'.err # "PermissionDenied"]_vars

\* C9 as amended: it never fails when the owner bits of the created node
\* grant what the mode asks for.
C9_CreateThenOpenGranted ==
    [][(/\ CreateThenOpen
        /\ \A bit \in NeedBits(res.mode) :
              (node[ret.node].perm \div (64 * bit)) % 2 = 1)
       => res'.err = "none"]_vars

\* a file created with owner bits, then opened by the host owner
C9_Witness ==
    /\ res.op = "FSOpen"
    /\ res.err = "none"
    /\ res.mode = ORDWR
    /\ ret.node >= 4
    /\ ret.uid = hostowner

\* C2: at most one transaction is executing at any instant.
C2_OneAtATime == Cardinality(Busy) <= 1

\* C3: transactions execute in the order of their submission: when all that
\* was submitted has completed, the file holds the byte of the write that was
\* submitted last.
C3_LastWriteWins ==
    (work = <<>> /\ Busy = {} /\ subm # <<>>) => content = <<Last(subm).data>>

\* C10: a transaction removed by a flush is neither in the queue nor with a
\* dispatcher nor ever replied to, and the flush is acknowledged; a
\* transaction a dispatcher has taken stays with it until it completes with
\* its reply.
C10_Flush ==
    [][/\ \A tag \in flushed' :
             /\ \A i \in 1 .. Len(work') : work'[i].tag # tag
             /\ \A d \in 1 .. Len(disp') : disp'[d].tag # tag
             /\ \A r \in replies' : r.tag = tag => r.type = "Rflush"
             /\ \E r \in replies' : r.tag = tag /\ r.type = "Rflush"
       /\ \A d \in Busy :
             \/ disp'[d] = disp[d]
             \/ /\ disp'[d] = NoTxn
                /\ [conn |-> disp[d].conn, tag |-> disp[d].tag, type |-> "Rwrite"]
                       \in replies'
                /\ content' = <<disp[d].data>>]_vars

\* a flush removed a queued transaction while another was executing, and a
\* flush for an executing one was acknowledged before its reply
C10_Witness ==
    /\ flushed # {}
    /\ \E d \in Busy :
          /\ [conn |-> disp[d].conn, tag |-> disp[d].tag, type |-> "Rflush"] \in replies
          /\ disp[d].tag \notin flushed

\* C16: newPath prefers the reclaim set: when it is not empty the id returned
\* is one of its members, exactly that member leaves the set and the counter
\* stays; when it is empty the id is the counter, which grows by exactly one,
\* and the set stays empty. delPath adds its id to the set and leaves the
\* counter alone.
C16_PrefersReclaimed ==
    [][/\ (res'.op = "newPath" /\ res'.err = "none") =>
             IF pathmap # {}
             THEN /\ res'.count \in pathmap
                  /\ pathmap' = pathmap \ {res'.count}
                  /\ path' = path
             ELSE /\ res'.count = path
                  /\ path' = path + 1
                  /\ pathmap' = pathmap
       /\ res'.op = "delPath" =>
             /\ path' = path
             /\ pathmap' = pathmap \cup {res'.count}]_vars

\* newPath handed out a freed startup id while the counter, already bumped,
\* stayed where it was
C16_Witness ==
    /\ res.op = "newPath"
    /\ res.err = "none"
    /\ res.count = 2
    /\ path = 5
    /\ pathmap = {1}

\* C17: newPath fails exactly when the reclaim set is empty and the counter is
\* at maxPath; a failing call changes nothing; the counter never wraps and
\* never passes maxPath; the counter never issues maxPath itself; after a
\* failure and a delPath(id) the next newPath succeeds with id.
C17_Ceiling ==
    [][/\ res'.op = "newPath" =>
             /\ res'.err # "none" <=> (pathmap = {} /\ path = maxPath)
             /\ res'.err # "none" => (path' = path /\ pathmap' = pathmap)
             /\ (res'.err = "none" /\ pathmap = {}) => res'.count # maxPath
       /\ path' >= path
       /\ path' <= maxPath
       /\ (/\ res.op = "delPath"
           /\ pathmap = {res.count}
           /\ path = maxPath
           /\ res'.op = "newPath")
          => (res'.err = "none" /\ res'.count = res.count)]_vars

\* newPath failed: nothing to reclaim and the counter at the ceiling
C17_Witness ==
    /\ res.op = "newPath"
    /\ res.err = "out of paths"
    /\ pathmap = {}
    /\ path = maxPath

\* C20: as long as delPath was only called with ids handed to nodes, the
\* counter is at least 4 and never goes down, every id of the reclaim set is
\* below the counter, and the counter never issues an id issued before.
C20_ReclaimBelowCounter ==
    [][~wild' =>
          /\ path >= 4
          /\ path' >= path
          /\ \A id \in pathmap' : id < path'
          /\ (res'.op = "newPath" /\ res'.err = "none" /\ pathmap = {})
                 => res'.count \notin issued]_vars

\* ids issued by the counter were freed and one of them was issued again
\* while the counter had moved on
C20_Witness ==
    /\ ~wild
    /\ res.op = "newPath"
    /\ res.count = 4
    /\ path = 6
    /\ pathmap = {5}

\* node n holds the permission bit for the triad (64 owner, 8 group, 1 other)
PermBit(n, triad, bit) == (node[n].perm \div (triad * bit)) % 2 = 1

\* C14: in the startup namespace /adm is writable by its owner and by nobody
\* else, neither group nor other, and /adm/ctl can be written but holds no
\* read bit for anybody.
C14_AdmOwnerWritable ==
    res.op = "New" =>
        LET adm == FSwalk(<<"", "adm">>)
            ctl == FSwalk(<<"", "adm", "ctl">>)
        IN  /\ adm # NoNode
            /\ node[adm].dir
            /\ PermBit(adm, 64, DMWRITE)
            /\ ~PermBit(adm, 8, DMWRITE)
            /\ ~PermBit(adm, 1, DMWRITE)
            /\ ctl # NoNode
            /\ PermBit(ctl, 64, DMWRITE)
            /\ \A triad \in {64, 8, 1} : ~PermBit(ctl, triad, DMREAD)

\* C15: right after New the root is a directory owned by the host owner
\* ("adm" for the empty argument) with mode 0755, is its own parent, and
\* /adm/ctl, /adm/group and /<hostowner> exist.
C15_StartNamespace ==
    res.op = "New" =>
        /\ hostowner # ""
        /\ node[root].uid = hostowner
        /\ node[root].dir
        /\ node[root].perm = Oct(7, 5, 5)
        /\ node[root].parent = root
        /\ FSwalk(<<"", "adm", "ctl">>) # NoNode
        /\ FSwalk(<<"", "adm", "group">>) # NoNode
        /\ FSwalk(<<"", hostowner>>) # NoNode

\* the requests FS.newFid has received and not yet answered
InService == {c \in Conns : req[c].pc \in {"sent", "recv"}}

\* C12: every value a requester receives is a complete fid (number 0, uid
\* "none", bound to the root), never nil; a reply channel yields exactly one
\* fid and is closed right after, before the next request is received;
\* FS.newFid serves one request at a time; no two requests receive the same
\* Fid object.
C12_MintedFids ==
    /\ \A g \in recvd :
          /\ g.fid # NilFid
          /\ g.fid.num = 0
          /\ g.fid.uid = "none"
          /\ g.fid.node = root
          /\ g.ch \in closed \/ (mint.pc = "close" /\ mint.ch = g.ch)
    /\ \A g \in recvd, h \in recvd :
          (g.ch = h.ch \/ g.fid.obj = h.fid.obj) => g = h
    /\ \A ch \in closed : \E g \in recvd : g.ch = ch
    /\ Cardinality(InService) <= 1
    /\ \A c \in InService : mint.pc = "send" /\ mint.ch = req[c].ch

\* both connections received a fid, one of them twice: three fids, three
\* closed channels
C12_Witness ==
    /\ Cardinality(recvd) = 3
    /\ Cardinality(closed) = 3
    /\ \E g \in recvd : g.conn = 1
    /\ \E g \in recvd : g.conn = 2

\* C19: under fair scheduling a reply channel offered on fidnew eventually
\* yields its fid; and while FS.newFid waits to hand a fid over, it moves on
\* only by the requester's receive, and every other offer stays blocked.
C19_MintLiveness ==
    /\ \A k \in 1 .. MaxMints :
          (\E c \in Conns : req[c].pc = "offer" /\ req[c].ch = k)
              ~> (\E g \in recvd : g.ch = k)
    /\ [][mint.pc = "send" =>
             /\ \A c \in Conns : req[c].pc = "offer" => req'[c] = req[c]
             /\ mint' # mint =>
                   \E c \in Conns :
                       /\ req[c].pc = "recv"
                       /\ req[c].ch = mint.ch
                       /\ \E g \in recvd' \ recvd : g.ch = mint.ch /\ g.conn = c]_vars

\* FS.newFid waits to hand its fid to a connection that has not arrived at
\* its receive, while the other connection's offer is blocked behind it
C19_Witness ==
    /\ mint.pc = "send"
    /\ \E c \in Conns, d \in Conns :
          /\ req[c].pc = "sent"
          /\ req[c].ch = mint.ch
          /\ req[d].pc = "offer"
          /\ recvd # {}

\* C13: Listen stays in its accept loop for ever; a turn in which accept
\* fails changes no connection; a turn in which newConn fails closes the
\* accepted socket and starts no task for it; every other accepted socket
\* gets exactly one connection task.
C13_AcceptLoop ==
    /\ [](lpc = "accept")
    /\ [](\A s \in Socks :
            /\ started[s] <= 1
            /\ started[s] = 1 <=> sock[s] \in {"open", "failed"}
            /\ started[s] = 0 <=> sock[s] \in {"none", "closed"}
            /\ s \in conns => started[s] = 1)
    /\ [][/\ nerr' # nerr =>
                (conns' = conns /\ sock' = sock /\ started' = started
                    /\ nsock' = nsock)
          /\ nsock' # nsock =>
                IF connmap = {} /\ srvconn = maxConn
                THEN /\ sock'[nsock'] = "closed"
                     /\ started'[nsock'] = 0
                     /\ conns' = conns
                ELSE /\ sock'[nsock'] = "open"
                     /\ started'[nsock'] = 1
                     /\ conns' = conns \cup {nsock'}]_vars

\* after an accept error and a socket closed for want of an id, Listen has
\* accepted another socket and started its task
C13_Witness ==
    /\ nerr > 0
    /\ sock[3] = "closed"
    /\ started[3] = 0
    /\ 4 \in conns
    /\ started[4] = 1

\* the accepted sockets whose connection task has ended
Ended == {s \in Socks : started[s] > 0 /\ s \notin conns}

\* C18: the ids of the connections whose task is running are pairwise
\* distinct and none of them is in the set of freed ids; delConn has run once
\* for every task that has ended and not at all for any other.
C18_ConnIds ==
    /\ \A c \in conns, d \in conns : c # d => connid[c] # connid[d]
    /\ \A c \in conns : connid[c] # NoConn /\ connid[c] \notin connmap
    /\ \A s \in Socks : dels[s] = IF s \in Ended THEN 1 ELSE 0

\* the id of a connection that ended is held by a later connection, next to
\* a connection that is still running on its first id
C18_Witness ==
    /\ 1 \in Ended
    /\ dels[1] = 1
    /\ {2, 3} \subseteq conns
    /\ connid[3] = connid[1]
    /\ connid[2] # connid[3]

\* the fids bound in the table of connection c
Held(c) == {k \in DOMAIN fidmap : k[1] = c /\ fidmap[k] # NoFid}

\* C11: once the socket of a connection has failed every fid of its table is
\* eventually clunked; the teardown leaves the fids of the other connections
\* as they are; and a fid is released only by the teardown of its
\* connection, by its clunk or by its remove.
C11_Teardown ==
    /\ \A c \in Socks : (c \in closing) ~> (Held(c) = {})
    /\ [][\A k \in DOMAIN fidmap :
             /\ (fidmap[k] # NoFid /\ fidmap'[k] = NoFid) =>
                    \/ k[1] \in closing /\ k[1] \notin conns'
                    \/ Clunk(k[1], k[2])
                    \/ Remove(k[1], k[2])
             /\ (\E c \in closing : c \notin conns' /\ c # k[1]) =>
                    fidmap'[k] = fidmap[k]]_vars

\* a connection whose socket failed still holds two fids while another
\* connection holds one
C11_Witness ==
    /\ \E c \in closing : Cardinality(Held(c)) = 2
    /\ \E d \in conns \ closing : Held(d) # {}

====
